---------------------------- MODULE Spec2Model ----------------------------
(***************************************************************************)
(* Model of "image handliing/convert-images.py": the single-file encoder   *)
(* image_to_data_uri, the folder batch converter                           *)
(* convert_all_images_in_folder, the __main__ block and the fixed-folder   *)
(* script that follows it in the same file.                                *)
(*                                                                         *)
(* Text is modelled at the level of characters: a Python str or bytes      *)
(* value is a sequence of character codes (printable ASCII), so that       *)
(* lower(), splitext(), Path.suffix, base64 and json.dump are computed     *)
(* and not assumed.  The file system is the three folders the code names,  *)
(* each absent or a listing (a sequence of entries in iterdir() order).    *)
(***************************************************************************)
EXTENDS Integers, Sequences, FiniteSets, TLC

VARIABLES
    dirs,   \* folder name -> [exists, entries]: the file system
    pc,     \* position of the interpreter in the file
    mode,   \* "script" (python convert-images.py) or "import" (import of the file)
    out,    \* lines printed since the current run / call began
    last    \* the latest operation: its name, argument, outcome and return value,
            \* and the text the output file held before it

vars == <<dirs, pc, mode, out, last>>

----------------------------------------------------------------------------
(* Bounds of the model *)

\* entries a folder holds initially (the output file comes on top of these)
MaxEntries == 2
\* length of the byte contents drawn for the single-file encoder
MaxLen == 3

----------------------------------------------------------------------------
(* String literals of the source, as character codes *)

F_glyphs == <<103, 108, 121, 112, 104, 115>>  \* "glyphs"
F_examples == <<101, 120, 97, 109, 112, 108, 101, 115>>  \* "examples"
F_primary == <<112, 114, 105, 109, 97, 114, 121>>  \* "primary"
OUTPUT_NAME == <<99, 111, 110, 118, 101, 114, 116, 101, 100, 95, 105, 109, 97, 103, 101, 115, 46, 106, 115, 111, 110>>  \* "converted_images.json"
SINGLE_PATH == <<103, 108, 121, 112, 104, 115, 47, 109, 95, 48, 48, 46, 112, 110, 103>>  \* "glyphs/m_00.png"
FIXED_OUT == <<101, 120, 97, 109, 112, 108, 101, 115, 47, 99, 111, 110, 118, 101, 114, 116, 101, 100, 95, 105, 109, 97, 103, 101, 115, 46, 106, 115, 111, 110>>  \* "examples/converted_images.json"
MIME_PNG == <<105, 109, 97, 103, 101, 47, 112, 110, 103>>  \* "image/png"
MIME_JPEG == <<105, 109, 97, 103, 101, 47, 106, 112, 101, 103>>  \* "image/jpeg"
MIME_GIF == <<105, 109, 97, 103, 101, 47, 103, 105, 102>>  \* "image/gif"
MIME_WEBP == <<105, 109, 97, 103, 101, 47, 119, 101, 98, 112>>  \* "image/webp"
EXT_png == <<112, 110, 103>>  \* "png"
EXT_jpg == <<106, 112, 103>>  \* "jpg"
EXT_jpeg == <<106, 112, 101, 103>>  \* "jpeg"
EXT_gif == <<103, 105, 102>>  \* "gif"
EXT_webp == <<119, 101, 98, 112>>  \* "webp"
DOT_png == <<46, 112, 110, 103>>  \* ".png"
DOT_jpg == <<46, 106, 112, 103>>  \* ".jpg"
DOT_jpeg == <<46, 106, 112, 101, 103>>  \* ".jpeg"
DOT_gif == <<46, 103, 105, 102>>  \* ".gif"
DOT_webp == <<46, 119, 101, 98, 112>>  \* ".webp"
DOT_json == <<46, 106, 115, 111, 110>>  \* ".json"
DATA_ == <<100, 97, 116, 97, 58>>  \* "data:"
B64_ == <<59, 98, 97, 115, 101, 54, 52, 44>>  \* ";base64,"

\* the characters the functions below single out
SEP == 47      \* "/"
EXTSEP == 46   \* "."
QUOTE == 34    \* the double quote
BACKSLASH == 92
NEWLINE == 10
SPACE == 32
COLON == 58
COMMA == 44
LBRACE == 123
RBRACE == 125
PAD == 61      \* "="

----------------------------------------------------------------------------
(* str methods and the path functions of the standard library *)

\* str.lower() on ASCII text
Lower(s) == [i \in 1..Len(s) |-> IF s[i] \in 65..90 THEN s[i] + 32 ELSE s[i]]

\* s.rfind(ch), 1-based: the last index of ch in s, 0 when there is none
RFind(s, ch) ==
    LET hits == {i \in 1..Len(s) : s[i] = ch}
    IN  IF hits = {} THEN 0 ELSE CHOOSE i \in hits : \A j \in hits : j <= i

\* PurePath.suffix (Python 3.11): the text from the last dot of the name,
\* unless that dot starts or ends the name
Suffix(name) ==
    LET i == RFind(name, EXTSEP)
    IN  IF 1 < i /\ i < Len(name) THEN SubSeq(name, i, Len(name)) ELSE <<>>

\* os.path.splitext(p)[1]: the text from the last dot after the last
\* separator, unless only dots stand between the separator and that dot
SplitExt(p) ==
    LET sepIndex == RFind(p, SEP)
        dotIndex == RFind(p, EXTSEP)
    IN  IF dotIndex > sepIndex
           /\ \E k \in (sepIndex + 1)..(dotIndex - 1) : p[k] # EXTSEP
        THEN SubSeq(p, dotIndex, Len(p))
        ELSE <<>>

\* Path(folder) / name, as os.fspath gives it
Join(folder, name) == folder \o <<SEP>> \o name

\* str(n) for a natural number
RECURSIVE Digits(_)
Digits(n) == IF n < 10 THEN <<48 + n>> ELSE Digits(n \div 10) \o <<48 + (n % 10)>>

----------------------------------------------------------------------------
(* base64.b64encode *)

\* a variant: the URL-safe alphabet of base64.urlsafe_b64encode, - and _
B64CharUrlSafe(v) ==
    IF v < 26 THEN 65 + v
    ELSE IF v < 52 THEN 97 + (v - 26)
    ELSE IF v < 62 THEN 48 + (v - 52)
    ELSE IF v = 62 THEN 45 ELSE 95

\* the base64 alphabet: A-Z a-z 0-9 + /
B64Char(v) ==
    IF v < 26 THEN 65 + v
    ELSE IF v < 52 THEN 97 + (v - 26)
    ELSE IF v < 62 THEN 48 + (v - 52)
    ELSE IF v = 62 THEN 43 ELSE 47

RECURSIVE B64Encode(_)
B64Encode(b) ==
    IF Len(b) = 0 THEN <<>>
    ELSE IF Len(b) = 1 THEN
        <<B64Char(b[1] \div 4), B64Char((b[1] % 4) * 16), PAD, PAD>>
    ELSE IF Len(b) = 2 THEN
        <<B64Char(b[1] \div 4), B64Char((b[1] % 4) * 16 + b[2] \div 16),
          B64Char((b[2] % 16) * 4), PAD>>
    ELSE
        <<B64Char(b[1] \div 4), B64Char((b[1] % 4) * 16 + b[2] \div 16),
          B64Char((b[2] % 16) * 4 + b[3] \div 64), B64Char(b[3] % 64)>>
        \o B64Encode(SubSeq(b, 4, Len(b)))

----------------------------------------------------------------------------
(* json.dump(results, f, indent=2) *)

\* the characters of a str as they stand inside a JSON string: the quote
\* and the backslash are escaped by a backslash
RECURSIVE JsonEscape(_)
JsonEscape(s) ==
    IF \A i \in 1..Len(s) : s[i] \notin {QUOTE, BACKSLASH} THEN s
    ELSE (IF s[1] \in {QUOTE, BACKSLASH} THEN <<BACKSLASH, s[1]>> ELSE <<s[1]>>)
         \o JsonEscape(Tail(s))

JsonString(s) == <<QUOTE>> \o JsonEscape(s) \o <<QUOTE>>

\* the items of the object, each on a line of its own, indented by two
\* spaces, separated by ",\n"
RECURSIVE JsonItems(_)
JsonItems(results) ==
    IF results = <<>> THEN <<>>
    ELSE <<NEWLINE, SPACE, SPACE>>
         \o JsonString(results[1][1]) \o <<COLON, SPACE>> \o JsonString(results[1][2])
         \o (IF Len(results) > 1 THEN <<COMMA>> ELSE <<>>)
         \o JsonItems(Tail(results))

\* a dict is a sequence of <<key, value>> pairs in insertion order
JsonDump(results) ==
    IF results = <<>> THEN <<LBRACE, RBRACE>>
    ELSE <<LBRACE>> \o JsonItems(results) \o <<NEWLINE, RBRACE>>

\* results[key] = value: an existing key keeps its place, a new one is appended
DictSet(results, key, value) ==
    IF \E i \in 1..Len(results) : results[i][1] = key
    THEN [i \in 1..Len(results) |->
            IF results[i][1] = key THEN <<key, value>> ELSE results[i]]
    ELSE Append(results, <<key, value>>)

----------------------------------------------------------------------------
(* The file system *)

Folders == {F_glyphs, F_examples, F_primary}

File(name, data) == [name |-> name, isdir |-> FALSE, data |-> data]
Directory(name) == [name |-> name, isdir |-> TRUE, data |-> <<>>]

\* a variant: the existence check answers yes for every path it knows
ExistsAlways(d, p) == p \in DOMAIN d

\* Path(p).exists()
Exists(d, p) == p \in DOMAIN d /\ d[p].exists

\* the entry a path names, as a set: empty when there is none
Lookup(d, path) ==
    LET i == RFind(path, SEP)
        folder == SubSeq(path, 1, i - 1)
        name == SubSeq(path, i + 1, Len(path))
    IN  IF i = 0 \/ ~Exists(d, folder) THEN {}
        ELSE {d[folder].entries[k] : k \in {k \in 1..Len(d[folder].entries) :
                                              d[folder].entries[k].name = name}}

\* open(path, 'rb') and read(): the exception raised ("" when none) and the bytes
OpenRead(d, path) ==
    IF Exists(d, path) THEN [exc |-> "IsADirectoryError", data |-> <<>>]
    ELSE IF Lookup(d, path) = {} THEN [exc |-> "FileNotFoundError", data |-> <<>>]
    ELSE LET e == CHOOSE e \in Lookup(d, path) : TRUE
         IN  IF e.isdir THEN [exc |-> "IsADirectoryError", data |-> <<>>]
             ELSE [exc |-> "", data |-> e.data]

\* open(folder/name, 'w'): the exception raised, "" when the file opens
OpenWriteExc(d, folder, name) ==
    IF ~Exists(d, folder) THEN "FileNotFoundError"
    ELSE IF \E e \in Lookup(d, Join(folder, name)) : e.isdir THEN "IsADirectoryError"
    ELSE ""

\* a variant: the file is opened with 'a', and an existing file keeps its text
WriteTextAppending(d, folder, name, text) ==
    LET es == d[folder].entries
    IN  IF \E k \in 1..Len(es) : es[k].name = name
        THEN {[d EXCEPT ![folder].entries =
                 [k \in 1..Len(es) |-> IF es[k].name = name
                                       THEN File(name, es[k].data \o text) ELSE es[k]]]}
        ELSE {[d EXCEPT ![folder].entries =
                 SubSeq(es, 1, pos - 1) \o <<File(name, text)>> \o SubSeq(es, pos, Len(es))]
              : pos \in 1..(Len(es) + 1)}

\* the file systems that writing text to folder/name may leave: an existing
\* file is truncated and keeps its place in the listing, a new one appears
\* at a place of the platform's choosing
WriteText(d, folder, name, text) ==
    LET es == d[folder].entries
    IN  IF \E k \in 1..Len(es) : es[k].name = name
        THEN {[d EXCEPT ![folder].entries =
                 [k \in 1..Len(es) |-> IF es[k].name = name THEN File(name, text) ELSE es[k]]]}
        ELSE {[d EXCEPT ![folder].entries =
                 SubSeq(es, 1, pos - 1) \o <<File(name, text)>> \o SubSeq(es, pos, Len(es))]
              : pos \in 1..(Len(es) + 1)}

\* the content of the file a path names, <<>> when it names no file
TextOf(d, path) ==
    IF \E e \in Lookup(d, path) : ~e.isdir
    THEN (CHOOSE e \in Lookup(d, path) : TRUE).data
    ELSE <<>>

\* a printed line: the format string and the text put into it
Msg(fmt, arg) == [fmt |-> fmt, arg |-> arg]

----------------------------------------------------------------------------
(* image_to_data_uri *)

\* mime_types.get(ext, 'image/png')
MimeTypes(ext) ==
    IF ext = EXT_png THEN MIME_PNG
    ELSE IF ext = EXT_jpg THEN MIME_JPEG
    ELSE IF ext = EXT_jpeg THEN MIME_JPEG
    ELSE IF ext = EXT_gif THEN MIME_GIF
    ELSE IF ext = EXT_webp THEN MIME_WEBP
    ELSE MIME_PNG

\* a variant: the extension is looked up without .lower()
ExtOfCaseSensitive(image_path) ==
    LET e == SplitExt(image_path)
    IN  IF e = <<>> THEN <<>> ELSE Tail(e)

\* os.path.splitext(image_path)[1][1:].lower()
ExtOf(image_path) ==
    LET e == SplitExt(image_path)
    IN  Lower(IF e = <<>> THEN <<>> ELSE Tail(e))

\* f'data:{mime};base64,{encoded}'
DataUri(mime, encoded) == DATA_ \o mime \o B64_ \o encoded

\* the call's result: the exception that leaves it ("" when it returns) and
\* the returned str
image_to_data_uri(d, image_path) ==
    LET f == OpenRead(d, image_path)
    IN  IF f.exc # "" THEN [exc |-> f.exc, ret |-> <<>>]
        ELSE [exc |-> "",
              ret |-> DataUri(MimeTypes(ExtOf(image_path)), B64Encode(f.data))]

----------------------------------------------------------------------------
(* convert_all_images_in_folder *)

\* a variant: the list also names the extension of the output file
ExtensionsWithJson == {DOT_png, DOT_jpg, DOT_jpeg, DOT_gif, DOT_webp, DOT_json}

\* extensions = ['.png', '.jpg', '.jpeg', '.gif', '.webp']
Extensions == {DOT_png, DOT_jpg, DOT_jpeg, DOT_gif, DOT_webp}

\* a variant: the suffix is compared without .lower()
IsImageCaseSensitive(name) == Suffix(name) \in {DOT_png, DOT_jpg, DOT_jpeg, DOT_gif, DOT_webp}

\* image_file.suffix.lower() in extensions
IsImage(name) == Lower(Suffix(name)) \in Extensions

\* a variant: an entry that cannot be read is skipped and the loop goes on
RECURSIVE ConvertLoopSkipping(_, _, _, _, _)
ConvertLoopSkipping(d, folder, entries, results, notices) ==
    IF entries = <<>> THEN [results |-> results, notices |-> notices, exc |-> ""]
    ELSE LET name == Head(entries).name IN
         IF Lower(Suffix(name)) \in {DOT_png, DOT_jpg, DOT_jpeg, DOT_gif, DOT_webp}
         THEN LET printed == Append(notices, Msg("Converting: {}", name))
                  f == OpenRead(d, Join(folder, name))
              IN  ConvertLoopSkipping(d, folder, Tail(entries),
                     IF f.exc # "" THEN results
                     ELSE DictSet(results, name,
                                  DataUri(MimeTypes(Lower(Tail(Suffix(name)))), B64Encode(f.data))),
                     printed)
         ELSE ConvertLoopSkipping(d, folder, Tail(entries), results, notices)

\* the for loop over folder.iterdir(): the dict built, the lines printed and
\* the exception that ended it ("" when it ran to its end)
RECURSIVE ConvertLoop(_, _, _, _, _)
ConvertLoop(d, folder, entries, results, notices) ==
    IF entries = <<>> THEN [results |-> results, notices |-> notices, exc |-> ""]
    ELSE LET image_file == Head(entries) IN
         IF IsImage(image_file.name)
         THEN LET printed == Append(notices, Msg("Converting: {}", image_file.name))
                  r == image_to_data_uri(d, Join(folder, image_file.name))
              IN  IF r.exc # ""
                  THEN [results |-> results, notices |-> printed, exc |-> r.exc]
                  ELSE ConvertLoop(d, folder, Tail(entries),
                                   DictSet(results, image_file.name, r.ret), printed)
         ELSE ConvertLoop(d, folder, Tail(entries), results, notices)

\* the three lines printed after the file is written (the format strings
\* without their check marks and blank lines)
Summary(results, folder) ==
    << Msg("Converted {} images", Digits(Len(results))),
       Msg("Results saved to: {}", Join(folder, OUTPUT_NAME)),
       Msg("You can now copy the data URIs from the JSON file!", <<>>) >>

\* one call: how it ends, what it prints, and the text it writes (if it does)
ConvertCall(d, folder_path) ==
    IF ~Exists(d, folder_path)
    THEN [outcome |-> "missing", writes |-> FALSE, text |-> <<>>,
          notices |-> <<Msg("Error: Folder '{}' not found!", folder_path)>>]
    ELSE LET r == ConvertLoop(d, folder_path, d[folder_path].entries, <<>>, <<>>)
             w == OpenWriteExc(d, folder_path, OUTPUT_NAME)
         IN  IF r.exc # ""
             THEN [outcome |-> r.exc, writes |-> FALSE, text |-> <<>>, notices |-> r.notices]
             ELSE IF w # ""
             THEN [outcome |-> w, writes |-> FALSE, text |-> <<>>, notices |-> r.notices]
             ELSE [outcome |-> "ok", writes |-> TRUE, text |-> JsonDump(r.results),
                   notices |-> r.notices \o Summary(r.results, folder_path)]

Raised(outcome) == outcome \notin {"ok", "missing"}

\* the call as a step of the interpreter: printed is what the run has
\* printed so far, returnTo and raiseTo the positions after a return and
\* after an exception
convert_all_images_in_folder(folder_path, printed, returnTo, raiseTo) ==
    \E c \in {ConvertCall(dirs, folder_path)} :   \* c: the call, worked out once
        /\ IF c.writes
           THEN dirs' \in WriteText(dirs, folder_path, OUTPUT_NAME, c.text)
           ELSE dirs' = dirs
        /\ out' = printed \o c.notices
        /\ last' = [op |-> "convert_all_images_in_folder", arg |-> folder_path,
                    outcome |-> c.outcome, ret |-> <<>>,
                    before |-> TextOf(dirs, Join(folder_path, OUTPUT_NAME))]
        /\ pc' = IF Raised(c.outcome) THEN raiseTo ELSE returnTo

----------------------------------------------------------------------------
(* The fixed-folder script at the end of the file *)

\* a variant: the script filters with the list of the general converter
FixedExtensionsAll == {DOT_png, DOT_jpg, DOT_jpeg, DOT_gif, DOT_webp}

\* ['.png', '.jpg', '.jpeg']
FixedExtensions == {DOT_png, DOT_jpg, DOT_jpeg}

\* 'image/jpeg' if img.suffix.lower() == '.jpg' else 'image/png'
FixedMime(name) == IF Lower(Suffix(name)) = DOT_jpg THEN MIME_JPEG ELSE MIME_PNG

RECURSIVE FixedLoop(_, _, _, _, _)
FixedLoop(d, folder, entries, results, notices) ==
    IF entries = <<>> THEN [results |-> results, notices |-> notices, exc |-> ""]
    ELSE LET img == Head(entries) IN
         IF Lower(Suffix(img.name)) \in FixedExtensions
         THEN LET f == OpenRead(d, Join(folder, img.name))
              IN  IF f.exc # ""
                  THEN [results |-> results, notices |-> notices, exc |-> f.exc]
                  ELSE FixedLoop(d, folder, Tail(entries),
                                 DictSet(results, img.name,
                                         DataUri(FixedMime(img.name), B64Encode(f.data))),
                                 Append(notices, Msg("Converted: {}", img.name)))
         ELSE FixedLoop(d, folder, Tail(entries), results, notices)

\* the script from folder = Path('primary') to its last print
FixedCall(d, folder) ==
    IF ~Exists(d, folder)
    THEN [outcome |-> "FileNotFoundError", arg |-> folder, writes |-> FALSE,
          text |-> <<>>, notices |-> <<>>]
    ELSE LET r == FixedLoop(d, folder, d[folder].entries, <<>>, <<>>)
             w == OpenWriteExc(d, F_examples, OUTPUT_NAME)
         IN  IF r.exc # ""
             THEN [outcome |-> r.exc, arg |-> folder, writes |-> FALSE, text |-> <<>>,
                   notices |-> r.notices]
             ELSE IF w # ""
             THEN [outcome |-> w, arg |-> FIXED_OUT, writes |-> FALSE, text |-> <<>>,
                   notices |-> r.notices]
             ELSE [outcome |-> "ok", arg |-> FIXED_OUT, writes |-> TRUE,
                   text |-> JsonDump(r.results),
                   notices |-> Append(r.notices, Msg("Done! Saved to {}", FIXED_OUT))]

----------------------------------------------------------------------------
(* The states the program starts in *)

\* the entries a folder may hold before the file first runs
GlyphsEntries == { File(<<109, 95, 48, 48, 46, 112, 110, 103>>, <<137, 80, 78, 71>>),  \* "m_00.png"
                   File(<<87, 46, 87, 101, 98, 80>>, <<82, 73>>) }                    \* "W.WebP"
ExamplesEntries == { File(<<97, 46, 112, 110, 103>>, <<137, 80, 78>>),    \* "a.png"
                     File(<<98, 46, 116, 120, 116>>, <<104, 105>>),       \* "b.txt"
                     Directory(<<120, 46, 112, 110, 103>>) }              \* "x.png", a subdirectory
PrimaryEntries == { File(<<97, 46, 112, 110, 103>>, <<0>>),               \* "a.png"
                    File(<<112, 46, 106, 112, 101, 103>>, <<255, 216, 255>>),  \* "p.jpeg"
                    File(<<101, 46, 103, 105, 102>>, <<71>>) }            \* "e.gif"

\* the listings of at most MaxEntries of these entries, in any order
Listings(entries) ==
    {s \in UNION {[1..n -> entries] : n \in 0..MaxEntries} :
        \A i, j \in 1..Len(s) : i # j => s[i].name # s[j].name}

Absent == [exists |-> FALSE, entries |-> <<>>]
Folder(listing) == [exists |-> TRUE, entries |-> listing]

\* a folder is absent or holds one of its listings
FolderStates(entries) == {Absent} \cup {Folder(s) : s \in Listings(entries)}

FileSystem(g, e, p) ==
    [f \in Folders |-> IF f = F_glyphs THEN g ELSE IF f = F_examples THEN e ELSE p]

NoOp == [op |-> "none", arg |-> <<>>, outcome |-> "", ret |-> <<>>, before |-> <<>>]

NotStarted ==
    /\ pc = "idle"
    /\ mode = "none"
    /\ out = <<>>
    /\ last = NoOp

\* the file is about to be run or imported, over any content of its three folders
Init ==
    /\ \E g \in FolderStates(GlyphsEntries), e \in FolderStates(ExamplesEntries),
          p \in FolderStates(PrimaryEntries) : dirs = FileSystem(g, e, p)
    /\ NotStarted

----------------------------------------------------------------------------
(* The steps of the file *)

\* python convert-images.py, up to the single-image example of __main__:
\* the header, the call, the preview of the first 100 characters
MainSingle ==
    /\ pc = "idle"
    /\ LET r == image_to_data_uri(dirs, SINGLE_PATH)
           header == <<Msg("=== Single Image Example ===", <<>>)>>
       IN  /\ out' = IF r.exc # "" THEN header
                     ELSE Append(header, Msg("Data URI preview: {}...",
                                             SubSeq(r.ret, 1, IF Len(r.ret) < 100 THEN Len(r.ret) ELSE 100)))
           /\ pc' = IF r.exc # "" THEN "crashed" ELSE "glyphs"
           /\ last' = [op |-> "image_to_data_uri", arg |-> SINGLE_PATH,
                       outcome |-> IF r.exc # "" THEN r.exc ELSE "ok", ret |-> r.ret,
                       before |-> <<>>]
    /\ mode' = "script"
    /\ dirs' = dirs

\* convert_all_images_in_folder('glyphs') of __main__
MainGlyphs ==
    /\ pc = "glyphs"
    /\ convert_all_images_in_folder(F_glyphs,
            Append(out, Msg("=== Batch Conversion ===", <<>>)), "examples", "crashed")
    /\ mode' = mode

\* convert_all_images_in_folder('examples') of __main__
MainExamples ==
    /\ pc = "examples"
    /\ convert_all_images_in_folder(F_examples, out, "fixed", "crashed")
    /\ mode' = mode

\* the fixed-folder script: the rest of the file when it runs as a script,
\* the whole of what runs when the file is imported
FixedFolder ==
    /\ pc \in {"fixed", "idle"}
    /\ \E c \in {FixedCall(dirs, F_primary)}, imported \in {pc = "idle"} :
           /\ IF c.writes
              THEN dirs' \in WriteText(dirs, F_examples, OUTPUT_NAME, c.text)
              ELSE dirs' = dirs
           /\ out' = out \o c.notices
           /\ last' = [op |-> "fixed", arg |-> c.arg, outcome |-> c.outcome, ret |-> <<>>,
                       before |-> <<>>]
           /\ mode' = IF imported THEN "import" ELSE mode
           /\ pc' = IF Raised(c.outcome) THEN "crashed"
                    ELSE IF imported THEN "imported" ELSE "done"

\* a caller that imported the file calls convert_all_images_in_folder
CallConvertAll(folder_path) ==
    /\ pc = "imported"
    /\ convert_all_images_in_folder(folder_path, <<>>, "imported", "imported")
    /\ mode' = mode

\* a caller that imported the file calls image_to_data_uri
CallImageToDataUri(image_path) ==
    /\ pc = "imported"
    /\ LET r == image_to_data_uri(dirs, image_path)
       IN  last' = [op |-> "image_to_data_uri", arg |-> image_path,
                    outcome |-> IF r.exc # "" THEN r.exc ELSE "ok", ret |-> r.ret,
                       before |-> <<>>]
    /\ out' = <<>>
    /\ UNCHANGED <<dirs, pc, mode>>

\* between two calls somebody deletes one of the folder's entries (not the
\* output file)
RemoveEntry(folder, k) ==
    /\ pc = "imported"
    /\ Exists(dirs, folder)
    /\ k \in 1..Len(dirs[folder].entries)
    /\ dirs[folder].entries[k].name # OUTPUT_NAME
    /\ LET es == dirs[folder].entries
       IN  /\ dirs' = [dirs EXCEPT ![folder].entries =
                          SubSeq(es, 1, k - 1) \o SubSeq(es, k + 1, Len(es))]
           /\ last' = [op |-> "remove", arg |-> Join(folder, es[k].name),
                       outcome |-> "ok", ret |-> <<>>, before |-> <<>>]
    /\ out' = <<>>
    /\ UNCHANGED <<pc, mode>>

\* running the file as a script, or importing it
Next ==
    \/ MainSingle
    \/ MainGlyphs
    \/ MainExamples
    \/ FixedFolder

Spec == Init /\ [][Next]_vars

----------------------------------------------------------------------------
(* A caller imports the file and converts a folder, again and again *)

\* what the scanned folder may hold
CallEntries == { File(<<97, 46, 112, 110, 103>>, <<137, 80, 78>>),    \* "a.png"
                 File(<<98, 46, 116, 120, 116>>, <<104, 105>>),       \* "b.txt"
                 Directory(<<120, 46, 112, 110, 103>>),               \* "x.png", a subdirectory
                 File(<<113, 46, 74, 80, 71>>, <<255, 216>>),         \* "q.JPG"
                 File(<<112, 46, 106, 112, 101, 103>>, <<255>>),      \* "p.jpeg"
                 File(<<87, 46, 87, 101, 98, 80>>, <<>>) }            \* "W.WebP"

\* what primary holds when it is not empty: an a.png of its own and e.gif
CallPrimary == << File(<<97, 46, 112, 110, 103>>, <<0>>),
                  File(<<101, 46, 103, 105, 102>>, <<71, 73, 70>>) >>

\* glyphs is missing, examples is the folder scanned, and primary is empty
\* or holds its two files
InitCalls ==
    /\ \E e \in Listings(CallEntries), p \in {<<>>, CallPrimary} :
          dirs = FileSystem(Absent, Folder(e), Folder(p))
    /\ NotStarted

NextCalls ==
    \/ FixedFolder
    \/ \E f \in Folders : CallConvertAll(f)
    \/ \E k \in 1..(MaxEntries + 1) : RemoveEntry(F_examples, k)

SpecCalls == InitCalls /\ [][NextCalls]_vars

----------------------------------------------------------------------------
(* A caller imports the file and encodes single files *)

\* the byte values the contents are drawn from
ByteValues == {0, 80, 137, 255}

Contents == UNION {[1..n -> ByteValues] : n \in 0..MaxLen}

\* the names the encoded file may have
EncodedNames == { <<97, 46, 112, 110, 103>>,                  \* "a.png"
                  <<97, 46, 80, 78, 71>>,                     \* "a.PNG"
                  <<97, 46, 106, 112, 103>>,                  \* "a.jpg"
                  <<97, 46, 74, 80, 69, 71>>,                 \* "a.JPEG"
                  <<97, 46, 103, 105, 102>>,                  \* "a.gif"
                  <<97, 46, 87, 101, 98, 112>>,               \* "a.Webp"
                  <<97, 46, 116, 120, 116>>,                  \* "a.txt"
                  <<97, 46, 98, 109, 112>>,                   \* "a.bmp"
                  <<97>>,                                     \* "a"
                  <<46, 106, 112, 103>>,                      \* ".jpg"
                  <<97, 46, 112, 110, 103, 46, 103, 105, 102>> } \* "a.png.gif"

\* glyphs holds one file, examples and primary are empty
InitEncode ==
    /\ \E n \in EncodedNames, b \in Contents :
          dirs = FileSystem(Folder(<<File(n, b)>>), Folder(<<>>), Folder(<<>>))
    /\ NotStarted

\* the paths of the entries the folders hold
EntryPaths(d) ==
    UNION {{Join(f, d[f].entries[k].name) : k \in 1..Len(d[f].entries)} : f \in Folders}

NextEncode ==
    \/ FixedFolder
    \/ \E p \in EntryPaths(dirs) \cup {SINGLE_PATH} : CallImageToDataUri(p)

SpecEncode == InitEncode /\ [][NextEncode]_vars

----------------------------------------------------------------------------
(* What the properties read: a JSON reader, a base64 decoder, extensions *)

\* the places of the quotes that open or close a string of a JSON text
QuotePlaces(text) ==
    {i \in 1..Len(text) : text[i] = QUOTE /\ (i = 1 \/ text[i - 1] # BACKSLASH)}

\* the strings of a JSON text, in order (for strings without escapes, as all
\* names and data URIs here are)
Strings(text) ==
    LET places == QuotePlaces(text)
        nth(r) == CHOOSE q \in places : Cardinality({j \in places : j <= q}) = r
    IN  [k \in 1..(Cardinality(places) \div 2) |->
            SubSeq(text, nth(2 * k - 1) + 1, nth(2 * k) - 1)]

\* the <<key, value>> pairs of a flat JSON object of strings
Pairs(text) ==
    LET strs == Strings(text)
    IN  {<<strs[2 * k - 1], strs[2 * k]>> : k \in 1..(Len(strs) \div 2)}

KeySet(text) == {kv[1] : kv \in Pairs(text)}

\* the value of a base64 character, -1 for a character outside the alphabet
B64Value(c) ==
    IF c \in 65..90 THEN c - 65
    ELSE IF c \in 97..122 THEN c - 97 + 26
    ELSE IF c \in 48..57 THEN c - 48 + 52
    ELSE IF c = 43 THEN 62
    ELSE IF c = 47 THEN 63
    ELSE -1

\* base64.b64decode of well-formed text; <<-1>> for text that is not
RECURSIVE B64Decode(_)
B64Decode(t) ==
    IF t = <<>> THEN <<>>
    ELSE IF Len(t) < 4 \/ B64Value(t[1]) < 0 \/ B64Value(t[2]) < 0 THEN <<-1>>
    ELSE LET v1 == B64Value(t[1])
             v2 == B64Value(t[2])
             v3 == B64Value(t[3])
             v4 == B64Value(t[4])
             b1 == v1 * 4 + v2 \div 16
             b2 == (v2 % 16) * 16 + v3 \div 4
             b3 == (v3 % 4) * 64 + v4
         IN  IF Len(t) = 4 /\ t[3] = PAD /\ t[4] = PAD THEN <<b1>>
             ELSE IF v3 < 0 THEN <<-1>>
             ELSE IF Len(t) = 4 /\ t[4] = PAD THEN <<b1, b2>>
             ELSE IF v4 < 0 THEN <<-1>>
             ELSE <<b1, b2, b3>> \o B64Decode(SubSeq(t, 5, Len(t)))

\* the first index of ch in s, 0 when there is none
Find(s, ch) ==
    LET hits == {i \in 1..Len(s) : s[i] = ch}
    IN  IF hits = {} THEN 0 ELSE CHOOSE i \in hits : \A j \in hits : i <= j

\* the parts of a data URI: data:<mime>;base64,<payload>
Scheme(uri) == SubSeq(uri, 1, 5)
MimeSegment(uri) == SubSeq(uri, 6, Find(uri, 59) - 1)
Marker(uri) == SubSeq(uri, Find(uri, 59), Find(uri, COMMA))
Payload(uri) == SubSeq(uri, Find(uri, COMMA) + 1, Len(uri))

\* name ends, in any case, with the extension ext (dot included)
EndsWith(name, ext) ==
    /\ Len(name) > Len(ext)
    /\ Lower(SubSeq(name, Len(name) - Len(ext) + 1, Len(name))) = ext

Supported(name) == \E x \in {DOT_png, DOT_jpg, DOT_jpeg, DOT_gif, DOT_webp} : EndsWith(name, x)

SupportedByFixed(name) == \E x \in {DOT_png, DOT_jpg, DOT_jpeg} : EndsWith(name, x)

\* the part of a path before its separator, and the part after it
FolderOf(path) == SubSeq(path, 1, Find(path, SEP) - 1)
NameOf(path) == SubSeq(path, Find(path, SEP) + 1, Len(path))

\* the entries of a folder, and their names
EntriesOf(f) == {dirs[f].entries[k] : k \in 1..Len(dirs[f].entries)}
Names(f) == {e.name : e \in EntriesOf(f)}

\* the output files of a folder (none or one)
Outputs(f) == {e \in EntriesOf(f) : e.name = OUTPUT_NAME}

\* the latest operation was a call of the batch converter on f
Converted(f) == last.op = "convert_all_images_in_folder" /\ last.arg = f
ConvertedOk(f) == Converted(f) /\ last.outcome = "ok"

N_a_png == <<97, 46, 112, 110, 103>>  \* "a.png"
N_b_txt == <<98, 46, 116, 120, 116>>  \* "b.txt"
N_x_png == <<120, 46, 112, 110, 103>>  \* "x.png"
N_q_JPG == <<113, 46, 74, 80, 71>>  \* "q.JPG"
N_e_gif == <<101, 46, 103, 105, 102>>  \* "e.gif"
N_a_JPEG == <<97, 46, 74, 80, 69, 71>>  \* "a.JPEG"

----------------------------------------------------------------------------
(* C1 *)

\* C1: after convert_all_images_in_folder has returned normally on an
\* existing folder, the folder holds converted_images.json and its keys are
\* exactly the names of the folder's entries that end, in any case, in
\* .png, .jpg, .jpeg, .gif or .webp (the names as they are, case kept); no
\* other entry, converted_images.json included, has a key.
C1_KeysAreTheImageEntries ==
    \A f \in Folders : ConvertedOk(f) =>
        /\ Outputs(f) # {}
        /\ \A o \in Outputs(f) : KeySet(o.data) = {n \in Names(f) : Supported(n)}

\* a folder with q.JPG and b.txt was converted: q.JPG is the only key
C1_Witness ==
    /\ ConvertedOk(F_examples)
    /\ {N_q_JPG, N_b_txt, OUTPUT_NAME} = Names(F_examples)
    /\ \E o \in Outputs(F_examples) : KeySet(o.data) = {N_q_JPG}

----------------------------------------------------------------------------
(* C2 *)

\* C2: a call of convert_all_images_in_folder with a path that does not
\* exist prints "Error: Folder '<path>' not found!" and nothing else,
\* returns to its caller without an exception, and leaves the file system
\* as it was.
C2_MissingFolderIsReported ==
    [][\A f \in Folders : (~dirs[f].exists /\ CallConvertAll(f)) =>
          /\ out' = <<Msg("Error: Folder '{}' not found!", f)>>
          /\ ~Raised(last'.outcome)
          /\ pc' = "imported"
          /\ dirs' = dirs]_vars

\* the call on the missing folder glyphs has returned
C2_Witness ==
    /\ Converted(F_glyphs)
    /\ ~dirs[F_glyphs].exists
    /\ last.outcome = "missing"
    /\ out = <<Msg("Error: Folder '{}' not found!", F_glyphs)>>

----------------------------------------------------------------------------
(* C3 *)

\* C3: when the file runs as a script and glyphs or examples is missing,
\* the process does not crash over it: no run ends in a FileNotFoundError
\* for a path inside the missing folder.
C3_MissingFolderDoesNotCrashTheScript ==
    \A f \in {F_glyphs, F_examples} :
        (mode = "script" /\ ~dirs[f].exists) =>
            ~(pc = "crashed" /\ last.outcome = "FileNotFoundError" /\ FolderOf(last.arg) = f)

----------------------------------------------------------------------------
(* C4 *)

\* C4: a second call of convert_all_images_in_folder right after a
\* successful first one on the same folder (nothing touched in between, the
\* output file of the first call now among the entries scanned) returns
\* normally and leaves converted_images.json with the very same bytes.
C4_SecondRunWritesTheSameBytes ==
    [][\A f \in Folders : (ConvertedOk(f) /\ CallConvertAll(f)) =>
          /\ last'.outcome = "ok"
          /\ last'.before = TextOf(dirs', Join(f, OUTPUT_NAME))
          /\ TextOf(dirs', Join(f, OUTPUT_NAME)) = TextOf(dirs, Join(f, OUTPUT_NAME))]_vars

\* the second run has found the output of the first among the entries of
\* primary, with two keys in it, and has written the same text again
C4_Witness ==
    /\ ConvertedOk(F_primary)
    /\ \E o \in Outputs(F_primary) :
          last.before = o.data /\ KeySet(o.data) = {N_a_png, N_e_gif}

----------------------------------------------------------------------------
(* C5 *)

\* C5: after a successful call the text of converted_images.json is the
\* dump of the entries the folder holds now and of nothing else: the keys
\* are names of entries of the folder, each value is the data URI of that
\* entry's bytes, and a key of the text the file held before whose entry is
\* gone is not in it.
C5_OutputIsOverwritten ==
    \A f \in Folders : ConvertedOk(f) =>
        \A o \in Outputs(f) :
            /\ Pairs(o.data) =
                 {<<e.name, image_to_data_uri(dirs, Join(f, e.name)).ret>> :
                    e \in {e \in EntriesOf(f) : Supported(e.name)}}
            /\ \A k \in KeySet(last.before) : k \notin Names(f) => k \notin KeySet(o.data)

\* a.png was a key of the output, was deleted from examples (primary holds
\* none), and the new output has no such key
C5_Witness ==
    /\ ConvertedOk(F_examples)
    /\ N_a_png \in KeySet(last.before)
    /\ N_a_png \notin Names(F_examples)
    /\ N_a_png \notin Names(F_primary)
    /\ \E o \in Outputs(F_examples) : N_a_png \notin KeySet(o.data)

----------------------------------------------------------------------------
(* C6 *)

\* the MIME type the table gives a name of EncodedNames
TableMime(name) ==
    IF name \in {<<97, 46, 112, 110, 103>>, <<97, 46, 80, 78, 71>>} THEN MIME_PNG   \* a.png a.PNG
    ELSE IF name \in {<<97, 46, 106, 112, 103>>, N_a_JPEG} THEN MIME_JPEG           \* a.jpg a.JPEG
    ELSE IF name \in {<<97, 46, 103, 105, 102>>,
                      <<97, 46, 112, 110, 103, 46, 103, 105, 102>>} THEN MIME_GIF   \* a.gif a.png.gif
    ELSE IF name = <<97, 46, 87, 101, 98, 112>> THEN MIME_WEBP                      \* a.Webp
    ELSE MIME_PNG                                                                   \* a.txt a.bmp a .jpg

\* C6: the str image_to_data_uri returns is data:<mime>;base64,<encoded>,
\* where <mime> is what the table gives the lowercased extension of the
\* path (image/png for an extension the table lacks, and for none) whatever
\* the bytes of the file, and <encoded> is base64 text.
C6_MimeFollowsTheExtension ==
    (last.op = "image_to_data_uri" /\ last.outcome = "ok" /\ FolderOf(last.arg) = F_glyphs) =>
        /\ Scheme(last.ret) = DATA_
        /\ MimeSegment(last.ret) = TableMime(NameOf(last.arg))
        /\ Marker(last.ret) = B64_
        /\ \A i \in 1..Len(Payload(last.ret)) :
              B64Value(Payload(last.ret)[i]) >= 0 \/ Payload(last.ret)[i] = PAD

\* a.JPEG, holding the bytes of a PNG header, was encoded as image/jpeg
C6_Witness ==
    /\ last.op = "image_to_data_uri" /\ last.outcome = "ok"
    /\ last.arg = Join(F_glyphs, N_a_JPEG)
    /\ TextOf(dirs, last.arg) = <<137, 80, 80>>
    /\ MimeSegment(last.ret) = MIME_JPEG

----------------------------------------------------------------------------
(* C7 *)

\* C7: for a file with a supported extension, the text after "base64," of
\* the data URI image_to_data_uri returns decodes to the bytes of the file.
C7_RoundTrip ==
    (last.op = "image_to_data_uri" /\ last.outcome = "ok" /\ Supported(last.arg)) =>
        B64Decode(Payload(last.ret)) = TextOf(dirs, last.arg)

\* two bytes, one of them 255, went through the encoder and came back
C7_Witness ==
    /\ last.op = "image_to_data_uri" /\ last.outcome = "ok" /\ Supported(last.arg)
    /\ TextOf(dirs, last.arg) = <<255, 137>>
    /\ B64Decode(Payload(last.ret)) = <<255, 137>>

----------------------------------------------------------------------------
(* C8 *)

\* the pairs of a dict
PairsOf(results) == {results[i] : i \in 1..Len(results)}

\* C8: once the fixed-folder script has written its file, the mapping in it
\* is the mapping the general loop builds for the same folder, primary, cut
\* down to the keys that end in .png, .jpg or .jpeg: the same keys, and for
\* each key the same data URI, MIME segment included.
C8_FixedIsTheGeneralRestricted ==
    (last.op = "fixed" /\ last.outcome = "ok") =>
        LET general == ConvertLoop(dirs, F_primary, dirs[F_primary].entries, <<>>, <<>>)
        IN  general.exc = "" =>
                \A o \in Outputs(F_examples) :
                    Pairs(o.data) = {kv \in PairsOf(general.results) : SupportedByFixed(kv[1])}

----------------------------------------------------------------------------
(* C9 *)

\* the entries of a listing that match, up to and including the first
\* that is a directory
RECURSIVE UpToUnreadable(_)
UpToUnreadable(entries) ==
    IF entries = <<>> THEN <<>>
    ELSE IF ~Supported(Head(entries).name) THEN UpToUnreadable(Tail(entries))
    ELSE IF Head(entries).isdir THEN <<Head(entries)>>
    ELSE <<Head(entries)>> \o UpToUnreadable(Tail(entries))

\* C9: when a matching entry of the folder cannot be read (a subdirectory
\* x.png), the call ends in the I/O error, the file system is as it was
\* (converted_images.json neither created nor changed, nothing of the
\* entries converted so far saved), and what was printed is one
\* "Converting:" line for each matching entry up to and including the
\* failing one, without the summary.
C9_UnreadableEntryAbortsTheBatch ==
    [][\A f \in Folders :
          (/\ dirs[f].exists
           /\ \E e \in EntriesOf(f) : e.isdir /\ Supported(e.name)
           /\ CallConvertAll(f)) =>
              /\ last'.outcome = "IsADirectoryError"
              /\ dirs' = dirs
              /\ out' = [i \in 1..Len(UpToUnreadable(dirs[f].entries)) |->
                            Msg("Converting: {}", UpToUnreadable(dirs[f].entries)[i].name)]]_vars

\* a.png was converted, x.png failed, and the output file still holds what
\* it held before the call
C9_Witness ==
    /\ Converted(F_examples)
    /\ last.outcome = "IsADirectoryError"
    /\ out = <<Msg("Converting: {}", N_a_png), Msg("Converting: {}", N_x_png)>>
    /\ \E o \in Outputs(F_examples) : o.data = last.before

----------------------------------------------------------------------------
(* C10 *)

\* C10: the fixed-folder script is the last to write
\* examples/converted_images.json, when the file runs as a script and when
\* it is imported: once the file has run to its end, the keys of that file
\* are the names of the .png, .jpg and .jpeg entries of primary, each value
\* carries the bytes of primary's entry, and no key comes from examples
\* alone.
C10_FixedScriptHasTheLastWord ==
    (pc \in {"done", "imported"} /\ last.op = "fixed") =>
        /\ Outputs(F_examples) # {}
        /\ \A o \in Outputs(F_examples) :
              /\ {<<kv[1], B64Decode(Payload(kv[2]))>> : kv \in Pairs(o.data)} =
                   {<<e.name, e.data>> : e \in {e \in EntriesOf(F_primary) : SupportedByFixed(e.name)}}
              /\ KeySet(o.data) \subseteq Names(F_primary)

\* the script ran to its end with an a.png in examples and another in
\* primary: the output holds primary's
C10_Witness ==
    /\ pc = "done" /\ mode = "script"
    /\ File(N_a_png, <<137, 80, 78>>) \in EntriesOf(F_examples)
    /\ File(N_a_png, <<0>>) \in EntriesOf(F_primary)
    /\ \E o \in Outputs(F_examples) :
          {<<kv[1], B64Decode(Payload(kv[2]))>> : kv \in Pairs(o.data)} = {<<N_a_png, <<0>>>>}

=============================================================================
